---- MODULE Spec2Model ----
(***************************************************************************)
(* A model of newforms' forms.js: the validation pipeline of BaseForm      *)
(* (errors, isValid, fullClean, _cleanFields, _cleanForm, _postClean),     *)
(* change detection (changedData, hasChanged), name prefixing (addPrefix,  *)
(* addInitialPrefix) and the field merge of the Form constructor factory.  *)
(*                                                                         *)
(* JavaScript objects are insertion-ordered maps: they are modelled as     *)
(* sequences of <<key, value>> pairs with unique keys.  null and undefined *)
(* are the strings Null and Undefined; a nullable object is a record with  *)
(* a "null" flag.                                                          *)
(***************************************************************************)
EXTENDS Integers, Sequences, FiniteSets, TLC

VARIABLES
  isBound,        \* this.isBound
  data,           \* this.data
  initial,        \* this.initial
  prefix,         \* this.prefix
  emptyPermitted, \* this.emptyPermitted
  fields,         \* this.fields, in declaration order
  overrides,      \* the prototype carries overridden cleaning hooks
  constructors,   \* the constructors Form() has returned, in order
  creationCounter, \* Field.creationCounter: fields constructed so far
  _errors,        \* this._errors: null until fullClean() has started
  cleanedData,    \* this.cleanedData: absent, undefined or an object
  _changedData,   \* this._changedData: null until changedData() has run
  trace,          \* history: the field cleans and hooks invoked so far
  runs,           \* history: number of fullClean() invocations
  changedRuns,    \* history: number of times changedData() ran its loop
  threw,          \* history: a call let a non-validation error out
  valid,          \* history: what the last isValid() returned, if it returned
  hooks,          \* the overridden hooks as the validation run found them
  instances       \* the objects the composed constructors have returned

vars == <<isBound, data, initial, prefix, emptyPermitted, fields, overrides,
          constructors, creationCounter,
          _errors, cleanedData, _changedData, trace, runs, changedRuns,
          threw, valid, hooks, instances>>

----------------------------------------------------------------------------
(* Bounds *)

MaxFields == 2

MaxConstructors == 3

MaxBases == 2

MaxInline == 2

MaxCreated == 4

----------------------------------------------------------------------------
(* JavaScript values and objects *)

Null == "<null>"
Undefined == "<undefined>"

NON_FIELD_ERRORS == "__all__"

Range(seq) == {seq[i] : i \in 1..Len(seq)}

HasKey(obj, k) == \E i \in 1..Len(obj) : obj[i][1] = k

Get(obj, k) ==
  IF HasKey(obj, k)
  THEN obj[CHOOSE i \in 1..Len(obj) : obj[i][1] = k][2]
  ELSE Undefined

\* obj[k] = v: an existing key keeps its position, a new key goes last
Put(obj, k, v) ==
  IF HasKey(obj, k)
  THEN [i \in 1..Len(obj) |-> IF obj[i][1] = k THEN <<k, v>> ELSE obj[i]]
  ELSE Append(obj, <<k, v>>)

\* delete obj[k]
Delete(obj, k) == SelectSeq(obj, LAMBDA p : p[1] # k)

getDefault(obj, k, default) ==
  IF HasKey(obj, k) THEN Get(obj, k) ELSE default

NullObject == [null |-> TRUE, items |-> <<>>]
Object(items) == [null |-> FALSE, items |-> items]

----------------------------------------------------------------------------
(* Error Report *)

ErrorObject == <<>>

ErrorSet(errs, k, messages) == Put(errs, k, messages)

ErrorGet(errs, k) == Get(errs, k)

isPopulated(errs) == Len(errs) > 0

----------------------------------------------------------------------------
(* Field capability *)

FieldNames == <<"name", "age", "email">>

Capitalized == <<"Name", "Age", "Email">>

FieldKinds == {"any", "required", "file"}

RequiredMessage == <<"This field is required.">>

IsEmptyValue(v) == v \in {Null, Undefined, ""}

\* field.clean(value[, initial]): a result, or a ValidationError
FieldClean(kind, value, init) ==
  CASE kind = "any" ->
         [failed |-> FALSE, value |-> IF value = Null THEN "" ELSE value,
          messages |-> <<>>]
    [] kind = "required" ->
         IF IsEmptyValue(value)
         THEN [failed |-> TRUE, value |-> Undefined, messages |-> RequiredMessage]
         ELSE [failed |-> FALSE, value |-> value, messages |-> <<>>]
    [] kind = "file" ->
         IF IsEmptyValue(value) /\ IsEmptyValue(init)
         THEN [failed |-> TRUE, value |-> Undefined, messages |-> RequiredMessage]
         ELSE [failed |-> FALSE,
               value |-> IF IsEmptyValue(value) THEN init ELSE value,
               messages |-> <<>>]

\* field._hasChanged(initial, data)
FieldHasChanged(initialValue, dataValue) ==
  (IF initialValue = Null THEN "" ELSE initialValue)
    # (IF dataValue = Null THEN "" ELSE dataValue)

\* widget.valueFromData(data, files, name)
valueFromData(d, name) == IF HasKey(d, name) THEN Get(d, name) ELSE Null

----------------------------------------------------------------------------
(* Names *)

addPrefix(fieldName) ==
  IF prefix # Null THEN prefix \o "-" \o fieldName ELSE fieldName

addInitialPrefix(fieldName) == "initial-" \o addPrefix(fieldName)

\* BoundField.data(), for the bound field of the given name
BoundField_data(name) == valueFromData(data, addPrefix(name))

----------------------------------------------------------------------------
(* Change detection *)

RECURSIVE changedDataPreferringFieldInitial(_)
changedDataPreferringFieldInitial(i) ==
  IF i > Len(fields) THEN <<>>
  ELSE LET field == fields[i]
           name == field.name
           dataValue == valueFromData(data, addPrefix(name))
           initialValue ==
             IF field.showHiddenInitial
             THEN valueFromData(data, addInitialPrefix(name))
             ELSE IF field.initial # Null THEN field.initial
             ELSE getDefault(initial, name, field.initial)
       IN (IF FieldHasChanged(initialValue, dataValue) THEN <<name>> ELSE <<>>)
            \o changedDataPreferringFieldInitial(i + 1)

\* the loop of changedData(), from the i-th declared field on
RECURSIVE changedDataLoop(_)
changedDataLoop(i) ==
  IF i > Len(fields) THEN <<>>
  ELSE LET field == fields[i]
           name == field.name
           prefixedName == addPrefix(name)
           dataValue == valueFromData(data, prefixedName)
           initialValue ==
             IF field.showHiddenInitial
             THEN valueFromData(data, addInitialPrefix(name))
             ELSE getDefault(initial, name, field.initial)
       IN (IF FieldHasChanged(initialValue, dataValue) THEN <<name>> ELSE <<>>)
            \o changedDataLoop(i + 1)

\* the body of changedData(): the memo and the loop counter after the call
changedDataMemo(memo, count) ==
  IF memo.null
  THEN [memo |-> Object(changedDataLoop(1)), count |-> count + 1]
  ELSE [memo |-> memo, count |-> count]

----------------------------------------------------------------------------
(* Behaviour of the overridable hooks during one run of the pipeline *)

HookOutcomes == {"value", "undefined", "ValidationError", "Error"}

DefaultEnv ==
  [field |-> 0, cleanThrows |-> FALSE, hasExact |-> FALSE, hasCamel |-> FALSE,
   hook |-> "value", clean |-> "default", postClean |-> "noop"]

\* at most one declared field has custom hooks or a defective clean
FieldEnvs(n) ==
  {[field |-> 0, cleanThrows |-> FALSE, hasExact |-> FALSE, hasCamel |-> FALSE,
    hook |-> "value"]}
  \cup {[field |-> i, cleanThrows |-> TRUE, hasExact |-> FALSE,
         hasCamel |-> FALSE, hook |-> "value"] : i \in 1..n}
  \cup {[field |-> i, cleanThrows |-> FALSE, hasExact |-> x[1],
         hasCamel |-> x[2], hook |-> o] :
          i \in 1..n, o \in HookOutcomes,
          x \in {<<TRUE, FALSE>>, <<FALSE, TRUE>>}}
  \cup {[field |-> i, cleanThrows |-> FALSE, hasExact |-> TRUE,
         hasCamel |-> TRUE, hook |-> "value"] : i \in 1..n}

CleanOutcomes == {"default", "replace", "undefined", "ValidationError", "Error"}

PostCleanOutcomes == {"noop", "addError"}

Envs(n) ==
  {[field |-> f.field, cleanThrows |-> f.cleanThrows, hasExact |-> f.hasExact,
    hasCamel |-> f.hasCamel, hook |-> f.hook, clean |-> c, postClean |-> p] :
      f \in FieldEnvs(n), c \in CleanOutcomes, p \in PostCleanOutcomes}

HookValue == "hooked"
HookMessage == <<"hook failed">>
CleanMessage == <<"clean failed">>
PostCleanMessage == <<"post-clean failed">>
ReplacementData == <<<<"total", "1">>>>

----------------------------------------------------------------------------
(* Validation pipeline *)

Absent == [kind |-> "absent", items |-> <<>>]
UndefinedData == [kind |-> "undefined", items |-> <<>>]
ObjectData(items) == [kind |-> "object", items |-> items]

ValidationError(messages) == [kind |-> "ValidationError", messages |-> messages]
Error == [kind |-> "Error", messages |-> <<>>]

\* An invocation of a field's clean or of a hook: what was invoked, how it
\* ended ("returned", "ValidationError" or "Error") and the cleaned data and
\* error report it was invoked with.
Event(op, name, outcome, s) ==
  [op |-> op, name |-> name, outcome |-> outcome, cd |-> s.cd,
   errors |-> s.errors]

Log(s, op, name, outcome) ==
  [s EXCEPT !.trace = Append(@, Event(op, name, outcome, s))]

Raised(outcome) == outcome \in {"ValidationError", "Error"}

\* the catch block of _cleanFields
catchCleanFields(s, name, e) ==
  IF e.kind # "ValidationError" THEN [s EXCEPT !.threw = TRUE]
  ELSE [s EXCEPT !.errors = ErrorSet(@, name, e.messages),
                 !.cd = IF HasKey(@.items, name) /\ Get(@.items, name) # Undefined
                        THEN ObjectData(Delete(@.items, name))
                        ELSE @]

customCleanExact(name) == "clean_" \o name

customCleanCamel(i) == "clean" \o Capitalized[i]

\* how an invocation with the given behaviour ends
Outcome(behaviour) == IF Raised(behaviour) THEN behaviour ELSE "returned"

\* this.cleanedData[name] = this[customClean](), or the catch block
customCleanResult(s, name, env) ==
  CASE env.hook = "value" ->
         [s EXCEPT !.cd = ObjectData(Put(@.items, name, HookValue))]
    [] env.hook = "undefined" ->
         [s EXCEPT !.cd = ObjectData(Put(@.items, name, Undefined))]
    [] env.hook = "ValidationError" ->
         catchCleanFields(s, name, ValidationError(HookMessage))
    [] env.hook = "Error" -> catchCleanFields(s, name, Error)

\* this[customClean](), for the one field that has custom hooks
callCustomClean(s, name, customClean, env) ==
  customCleanResult(Log(s, "hook", customClean, Outcome(env.hook)), name, env)

customCleanCamelFirst(i, s, name, env) ==
  IF env.field = i /\ env.hasCamel
  THEN callCustomClean(s, name, customCleanCamel(i), env)
  ELSE IF env.field = i /\ env.hasExact
  THEN callCustomClean(s, name, customCleanExact(name), env)
  ELSE s

\* the custom cleaning hook of the i-th declared field, if it has one
customClean(i, s, name, env) ==
  IF env.field = i /\ env.hasExact
  THEN callCustomClean(s, name, customCleanExact(name), env)
  ELSE IF env.field = i /\ env.hasCamel
  THEN callCustomClean(s, name, customCleanCamel(i), env)
  ELSE s

\* the try block of _cleanFields once field.clean has ended with r
cleanedField(i, s, name, r, env) ==
  IF env.field = i /\ env.cleanThrows
  THEN catchCleanFields(Log(s, "field.clean", name, "Error"), name, Error)
  ELSE IF r.failed
  THEN catchCleanFields(Log(s, "field.clean", name, "ValidationError"),
                        name, ValidationError(r.messages))
  ELSE customClean(i, [Log(s, "field.clean", name, "returned")
                         EXCEPT !.cd = ObjectData(Put(@.items, name, r.value))],
                   name, env)

\* field.clean(value) or, for a file field, field.clean(value, initial)
cleanValue(field, value) ==
  IF field.kind = "file"
  THEN FieldClean(field.kind, value,
                  getDefault(initial, field.name, field.initial))
  ELSE FieldClean(field.kind, value, Null)

\* one iteration of the loop of _cleanFields, for the i-th declared field
cleanField(i, s, env) ==
  cleanedField(i, s, fields[i].name,
               cleanValue(fields[i],
                          valueFromData(data, addPrefix(fields[i].name))),
               env)

RECURSIVE cleanFieldsUntilFailure(_, _, _)
cleanFieldsUntilFailure(i, s, env) ==
  IF i > Len(fields) \/ s.threw \/ isPopulated(s.errors) THEN s
  ELSE cleanFieldsUntilFailure(i + 1, cleanField(i, s, env), env)

RECURSIVE _cleanFields(_, _, _)
\* the loop of _cleanFields, from the i-th declared field on
_cleanFields(i, s, env) ==
  IF i > Len(fields) \/ s.threw THEN s
  ELSE _cleanFields(i + 1, cleanField(i, s, env), env)

catchCleanFormSwallowing(s, e) ==
  [s EXCEPT !.errors = ErrorSet(@, NON_FIELD_ERRORS, e.messages)]

\* the catch block of _cleanForm
catchCleanForm(s, e) ==
  IF e.kind # "ValidationError" THEN [s EXCEPT !.threw = TRUE]
  ELSE [s EXCEPT !.errors = ErrorSet(@, NON_FIELD_ERRORS, e.messages)]

cleanFormKeepingData(s, env) ==
  CASE env.clean \in {"default", "replace", "undefined"} -> s
    [] env.clean = "ValidationError" ->
         catchCleanForm(s, ValidationError(CleanMessage))
    [] env.clean = "Error" -> catchCleanForm(s, Error)

\* this.cleanedData = this.clean(), or the catch block, once clean() has
\* been invoked
cleanFormResult(s, env) ==
  CASE env.clean = "default" -> s
    [] env.clean = "replace" -> [s EXCEPT !.cd = ObjectData(ReplacementData)]
    [] env.clean = "undefined" -> [s EXCEPT !.cd = UndefinedData]
    [] env.clean = "ValidationError" ->
         catchCleanForm(s, ValidationError(CleanMessage))
    [] env.clean = "Error" -> catchCleanForm(s, Error)

\* a non-validation error raised by an earlier step has left fullClean
_cleanForm(s, env) ==
  IF s.threw THEN s
  ELSE cleanFormResult(Log(s, "clean", env.clean, Outcome(env.clean)), env)

\* what an overriding _postClean does once invoked: it may record errors
postCleanResult(s, env) ==
  IF env.postClean = "addError"
  THEN [s EXCEPT !.errors = ErrorSet(@, fields[1].name, PostCleanMessage)]
  ELSE s

\* _postClean is a no-op unless overridden
_postClean(s, env) ==
  IF s.threw THEN s
  ELSE postCleanResult(Log(s, "_postClean", env.postClean, "returned"), env)

\* the state of the instance as a record
Current ==
  [errors |-> _errors.items, cd |-> cleanedData, changed |-> _changedData,
   changedRuns |-> changedRuns, trace |-> trace, runs |-> runs,
   threw |-> FALSE, hooks |-> hooks]

\* the instance once changedData() has answered ch
withChangedData(s, ch) ==
  [s EXCEPT !.changed = ch.memo, !.changedRuns = ch.count]

hasChangedAlways(s) ==
  [s |-> withChangedData(s, changedDataMemo(s.changed, s.changedRuns)),
   value |-> TRUE]

\* hasChanged(): the state after the call and the value it returns
hasChanged(s) ==
  [s |-> withChangedData(s, changedDataMemo(s.changed, s.changedRuns)),
   value |-> Len(changedDataMemo(s.changed, s.changedRuns).memo.items) > 0]

discardNever(s) == s

\* the end of fullClean, which a non-validation error never reaches
discardIfErrors(s) ==
  IF ~s.threw /\ isPopulated(s.errors) THEN [s EXCEPT !.cd = Absent] ELSE s

cleanDiscardingBeforePostClean(hc, env) ==
  IF emptyPermitted /\ ~hc.value THEN hc.s
  ELSE _postClean(
         discardIfErrors(_cleanForm(_cleanFields(1, [hc.s EXCEPT !.hooks = env],
                                                 env), env)), env)

\* fullClean from the emptyPermitted test on, hc being what hasChanged()
\* answered where it was asked
cleanUnlessUnchanged(hc, env) ==
  IF emptyPermitted /\ ~hc.value THEN hc.s
  ELSE discardIfErrors(
         _postClean(_cleanForm(_cleanFields(1, [hc.s EXCEPT !.hooks = env],
                                            env), env), env))

\* fullClean of a bound instance from this.cleanedData = {} on
cleanBound(s, env) ==
  cleanUnlessUnchanged(IF emptyPermitted THEN hasChanged(s)
                       ELSE [s |-> s, value |-> TRUE],
                       env)

\* this._errors = ErrorObject()
startClean(s) == [s EXCEPT !.errors = ErrorObject, !.runs = @ + 1]

fullClean(s, env) ==
  IF ~isBound THEN startClean(s)
  ELSE cleanBound([startClean(s) EXCEPT !.cd = ObjectData(<<>>)], env)

----------------------------------------------------------------------------
(* Construction *)

\* BaseForm(kwargs), for a constructor whose baseFields is the given map
BaseForm(baseFields, kwargs) ==
  /\ isBound = ~kwargs.data.null
  /\ data = kwargs.data.items
  /\ prefix = kwargs.prefix
  /\ initial = kwargs.initial.items
  /\ emptyPermitted = kwargs.emptyPermitted
  /\ _errors = NullObject
  /\ _changedData = NullObject
  /\ fields = baseFields
  /\ cleanedData = Absent
  /\ trace = <<>>
  /\ runs = 0
  /\ changedRuns = 0
  /\ threw = FALSE
  /\ valid = "none"
  /\ hooks = DefaultEnv

SubmittedValues == {"", "x"}

\* n declared fields without own initial value and without shadow channel
PlainFields(n, kinds) ==
  [i \in 1..n |-> [name |-> FieldNames[i], kind |-> kinds[i],
                   initial |-> Null, showHiddenInitial |-> FALSE]]

\* an "any" field accepts every value alike and a file field is exercised by
\* an empty submission, so only a required field is given both values
Submissions(n, kinds) ==
  {v \in [1..n -> SubmittedValues] :
     \A i \in 1..n : /\ kinds[i] = "any" => v[i] = "x"
                     /\ kinds[i] = "file" => v[i] = ""}

PlainKwargs(n, kinds) ==
  {[data |-> d, initial |-> ini, prefix |-> Null, emptyPermitted |-> ep] :
     d \in {NullObject}
             \cup {Object([i \in 1..n |-> <<FieldNames[i], v[i]>>]) :
                     v \in Submissions(n, kinds)},
     ini \in {NullObject, Object([i \in 1..n |-> <<FieldNames[i], "x">>])},
     ep \in BOOLEAN}

\* instances of constructors that override cleaning hooks, submitted
\* without prefix
Init ==
  \E n \in 1..MaxFields :
    \E kinds \in [1..n -> FieldKinds] :
      \E kwargs \in PlainKwargs(n, kinds) :
        /\ BaseForm(PlainFields(n, kinds), kwargs)
        /\ overrides = TRUE
        /\ constructors = <<>>
        /\ creationCounter = n
        /\ instances = <<>>

Missing == "<missing>"

\* what is known and submitted for one field: its own and the instance's
\* initial value, the value under its external name and the value under the
\* shadow name of its initial value
FieldShapes ==
  {[hidden |-> FALSE, fieldInitial |-> fi, instInitial |-> ii,
    submitted |-> v, shadow |-> Missing] :
      fi \in {Null, "x"}, ii \in {Missing, "y"}, v \in {Missing, "x", "y"}}
  \cup {[hidden |-> TRUE, fieldInitial |-> "x", instInitial |-> "y",
          submitted |-> v, shadow |-> sh] :
           v \in {Missing, "x", "y"}, sh \in {Missing, "x"}}

Prefixes == {Null, "", "p1"}

\* the key a client that was given prefix p submits field name under
SubmittedKey(p, name) == IF p = Null THEN name ELSE p \o "-" \o name

Entry(k, v) == IF v = Missing THEN <<>> ELSE <<<<k, v>>>>

RECURSIVE SubmittedData(_, _, _, _)
\* the submitted object for the first n fields; with unprefixed set, a value
\* under every bare field name as well
SubmittedData(n, shapes, p, unprefixed) ==
  IF n = 0 THEN <<>>
  ELSE SubmittedData(n - 1, shapes, p, unprefixed)
         \o Entry(SubmittedKey(p, FieldNames[n]), shapes[n].submitted)
         \o Entry("initial-" \o SubmittedKey(p, FieldNames[n]), shapes[n].shadow)
         \o (IF unprefixed /\ p # Null THEN Entry(FieldNames[n], "z") ELSE <<>>)

RECURSIVE InitialData(_, _)
InitialData(n, shapes) ==
  IF n = 0 THEN <<>>
  ELSE InitialData(n - 1, shapes) \o Entry(FieldNames[n], shapes[n].instInitial)

ShapedFields(n, shapes) ==
  [i \in 1..n |-> [name |-> FieldNames[i], kind |-> "required",
                   initial |-> shapes[i].fieldInitial,
                   showHiddenInitial |-> shapes[i].hidden]]

ShapedKwargs(n, shapes) ==
  UNION {
    {[data |-> d, initial |-> Object(InitialData(n, shapes)), prefix |-> p,
      emptyPermitted |-> ep] :
       ep \in BOOLEAN,
       d \in {NullObject}
               \cup {Object(SubmittedData(n, shapes, p, u)) : u \in BOOLEAN}} :
    p \in Prefixes}

\* instances of plain constructors, with and without prefix, initial
\* values and shadow channel
InitNames ==
  \E n \in 1..MaxFields :
    \E shapes \in [1..n -> FieldShapes] :
      \E kwargs \in ShapedKwargs(n, shapes) :
        /\ BaseForm(ShapedFields(n, shapes), kwargs)
        /\ overrides = FALSE
        /\ constructors = <<>>
        /\ creationCounter = n
        /\ instances = <<>>

----------------------------------------------------------------------------
(* Public operations of an instance *)

ReturnedUndefined == [kind |-> "undefined", list |-> <<>>]
ReturnedErrorList(l) == [kind |-> "ErrorList", list |-> l]
ReturnedErrorObject(e) == [kind |-> "ErrorObject", list |-> e]

truthy(v) == v \notin {Null, Undefined, ""}

config ==
  <<isBound, data, initial, prefix, emptyPermitted, fields, overrides,
    constructors, creationCounter, instances>>

Commit(s, ran) ==
  /\ _errors' = IF ran THEN Object(s.errors) ELSE _errors
  /\ cleanedData' = s.cd
  /\ _changedData' = s.changed
  /\ changedRuns' = s.changedRuns
  /\ trace' = s.trace
  /\ runs' = s.runs
  /\ threw' = (threw \/ s.threw)
  /\ hooks' = s.hooks
  /\ UNCHANGED config

\* the hook behaviours that can matter to a call made in the current state
EnvsNow ==
  IF _errors.null /\ isBound /\ overrides
  THEN Envs(Len(fields))
  ELSE {DefaultEnv}

\* what errors(name) returns once this._errors is set: the state after the
\* call and the value returned
errorsResult(s, name) ==
  [s |-> s, ran |-> TRUE,
   value |-> IF truthy(name)
             THEN IF HasKey(s.errors, name)
                  THEN ReturnedErrorList(ErrorGet(s.errors, name))
                  ELSE ReturnedUndefined
             ELSE ReturnedErrorObject(s.errors)]

errorsAlwaysCleaning(name, env) ==
  errorsResult(fullClean(Current, env), name)

\* the body of errors(name)
errorsCall(name, env) ==
  errorsResult(IF _errors.null THEN fullClean(Current, env) ELSE Current, name)

\* x || new this.errorConstructor(), applied to the outcome c of a call
orEmptyList(c) ==
  IF c.value.kind = "undefined"
  THEN [c EXCEPT !.value = ReturnedErrorList(<<>>)]
  ELSE c

\* !this.errors().isPopulated(), c being the outcome of this.errors()
notPopulated(c) ==
  [s |-> c.s, ran |-> TRUE, value |-> ~isPopulated(c.value.list)]

isValidIgnoringBound(env) == notPopulated(errorsCall(Undefined, env))

\* the body of isValid(): the state after it and the value it returns
isValidCall(env) ==
  IF ~isBound THEN [s |-> Current, ran |-> FALSE, value |-> FALSE]
  ELSE notPopulated(errorsCall(Undefined, env))

\* the instance after a call of isValid() that ended with c
CommitValid(c) ==
  /\ Commit(c.s, c.ran)
  /\ valid' = IF c.s.threw THEN valid
              ELSE IF c.value THEN "true" ELSE "false"

errors(name) ==
  \E env \in EnvsNow :
    Commit(errorsCall(name, env).s, TRUE) /\ UNCHANGED valid

isValid == \E env \in EnvsNow : CommitValid(isValidCall(env))

nonFieldErrors ==
  \E env \in EnvsNow :
    Commit(orEmptyList(errorsCall(NON_FIELD_ERRORS, env)).s, TRUE)
    /\ UNCHANGED valid

BoundField_errors(name) ==
  \E env \in EnvsNow :
    Commit(orEmptyList(errorsCall(name, env)).s, TRUE) /\ UNCHANGED valid

changedData ==
  LET ch == changedDataMemo(_changedData, changedRuns)
  IN /\ _changedData' = ch.memo
     /\ changedRuns' = ch.count
     /\ UNCHANGED <<config, _errors, cleanedData, trace, runs, threw, valid,
                    hooks>>

DeclaredNames == {fields[i].name : i \in 1..Len(fields)}

Next ==
  \/ \E name \in {Undefined} \cup DeclaredNames : errors(name)
  \/ isValid
  \/ nonFieldErrors
  \/ \E name \in DeclaredNames : BoundField_errors(name)
  \/ changedData

Spec == Init /\ [][Next]_vars

SpecNames == InitNames /\ [][Next]_vars

----------------------------------------------------------------------------
(* Composition of constructors: Form(kwargs) *)

\* A field is identified by its creationCounter.  An inline declaration is a
\* pair <<name, creationCounter>>; a constructor records the bases and the
\* declarations it was composed from, as enumerated, and its baseFields.

objectItems(obj) == obj

RECURSIVE itemsToObject(_)
itemsToObject(items) ==
  IF items = <<>> THEN <<>>
  ELSE LET last == items[Len(items)]
       IN Put(itemsToObject(SubSeq(items, 1, Len(items) - 1)), last[1], last[2])

\* insert a pair into a list sorted by creationCounter
RECURSIVE insertByCounter(_, _)
insertByCounter(sorted, item) ==
  IF sorted = <<>> THEN <<item>>
  ELSE IF item[2] - sorted[1][2] < 0 THEN <<item>> \o sorted
  ELSE <<sorted[1]>> \o insertByCounter(Tail(sorted), item)

unsorted(items) == items

RECURSIVE sortByCreationCounter(_)
\* fields.sort(function(a, b) { return a[1].creationCounter - ... })
sortByCreationCounter(items) ==
  IF items = <<>> THEN <<>>
  ELSE insertByCounter(sortByCreationCounter(Tail(items)), Head(items))

\* prototype.baseFields of a base: undefined for BaseForm itself (index 0)
hasBaseFields(base) == base # 0

RECURSIVE prependBasesSkipping(_, _, _)
prependBasesSkipping(bases, i, items) ==
  IF i < 1 THEN items
  ELSE prependBasesSkipping(bases, i - 1,
         IF hasBaseFields(bases[i])
         THEN SelectSeq(objectItems(constructors[bases[i]].baseFields),
                        LAMBDA p :
                          \A j \in 1..(i - 1) :
                            ~HasKey(constructors[bases[j]].baseFields, p[1]))
                \o items
         ELSE items)

RECURSIVE prependBases(_, _, _)
\* the loop over the bases in reverse, from the i-th base down
prependBases(bases, i, items) ==
  IF i < 1 THEN items
  ELSE prependBases(bases, i - 1,
         IF hasBaseFields(bases[i])
         THEN objectItems(constructors[bases[i]].baseFields) \o items
         ELSE items)

\* the baseFields of the constructor Form() composes
mergedBaseFields(bases, declared) ==
  itemsToObject(prependBases(bases, Len(bases), sortByCreationCounter(declared)))

Injective(f) == \A a, b \in DOMAIN f : a # b => f[a] # f[b]

NameSet == Range(FieldNames)

\* the i-th smallest index of a set of indices into FieldNames
RECURSIVE Nth(_, _)
Nth(S, i) ==
  LET m == CHOOSE x \in S : \A y \in S : x <= y
  IN IF i = 1 THEN m ELSE Nth(S \ {m}, i - 1)

\* the field declarations of one call: up to MaxInline distinct names,
\* enumerated in the order of FieldNames, their fields constructed in any
\* order
Declarations ==
  UNION {
    {[i \in 1..Cardinality(S) |->
        <<FieldNames[Nth(S, i)], creationCounter + order[i]>>] :
       order \in {f \in [1..Cardinality(S) -> 1..Cardinality(S)] : Injective(f)}} :
    S \in {T \in SUBSET (1..Len(FieldNames)) : Cardinality(T) <= MaxInline}}

\* kwargs.form: BaseForm by default, or one or several composed constructors
BaseLists ==
  {<<0>>}
  \cup UNION {{b \in [1..k -> 1..Len(constructors)] : Injective(b)} :
              k \in 1..MaxBases}

\* the variables of the instance the validation pipeline runs on
thisForm ==
  <<isBound, data, initial, prefix, emptyPermitted, fields, overrides,
    _errors, cleanedData, _changedData, trace, runs, changedRuns, threw,
    valid, hooks>>

\* Form(kwargs): kwargs.form, the fields among kwargs as enumerated,
\* kwargs.preInit and kwargs.postInit (Null when not given)
Form(bases, declared, preInit, postInit) ==
  /\ creationCounter + Len(declared) <= MaxCreated
  /\ constructors' =
       Append(constructors,
              [bases |-> bases, declared |-> declared,
               preInit |-> preInit, postInit |-> postInit,
               baseFields |-> mergedBaseFields(bases, declared)])
  /\ creationCounter' = creationCounter + Len(declared)
  /\ UNCHANGED <<thisForm, instances>>

\* no constructor composed yet; the instance state is that of an unbound
\* instance without fields
InitCompose ==
  /\ BaseForm(<<>>, [data |-> NullObject, initial |-> NullObject,
                     prefix |-> Null, emptyPermitted |-> FALSE])
  /\ overrides = FALSE
  /\ constructors = <<>>
  /\ creationCounter = 0
  /\ instances = <<>>

NextCompose ==
  /\ Len(constructors) < MaxConstructors
  /\ \E bases \in BaseLists, declared \in Declarations :
       Form(bases, declared, Null, Null)

SpecCompose == InitCompose /\ [][NextCompose]_vars

----------------------------------------------------------------------------
(* Instantiation: the constructor that Form() returns *)

MaxChain == 2

MaxInstances == 2
\* instances built where the order of construction is observed
MaxBuilt == 1

MaxMutations == 1

MaxBlueprints == 2

\* what a preInit does: it returns nothing, returns null, or returns a
\* kwargs object of its own
PreInits == {"undefined", "null", "kwargs"}

\* what a postInit does: nothing, or it deletes the first entry of
\* this.fields
PostInits == {"noop", "delete"}

Digits == <<"1", "2", "3", "4", "5">>

\* A reference to a field map object: none (this.fields is not set), the
\* baseFields of a prototype, or the object an instance owns.
NoRef == [owner |-> "undefined", id |-> 0]
BaseFieldsRef(c) == [owner |-> "prototype", id |-> c]
OwnRef(i) == [owner |-> "instance", id |-> i]

\* `this` in a call without new: not an object
NoObject ==
  [object |-> FALSE, proto |-> 0, isBound |-> FALSE, data |-> <<>>,
   initial |-> <<>>, prefix |-> Null, emptyPermitted |-> FALSE,
   fields |-> NoRef, map |-> <<>>, log |-> <<>>, mutations |-> 0,
   allocated |-> 0]

\* A call in progress: this, the prototypes as the call has left them and
\* the number of objects the call has allocated.
Calling == [this |-> NoObject, protos |-> constructors, allocated |-> 0]

\* new: an object whose prototype is that of the c-th constructor
newObject(c, st) ==
  [st EXCEPT !.this = [NoObject EXCEPT !.object = TRUE, !.proto = c],
             !.allocated = @ + 1]

RECURSIVE Inherits(_, _)
\* the prototype of the c-th constructor is, or inherits from, that of base
Inherits(c, base) ==
  c # 0 /\ (c = base \/ Inherits(constructors[c].bases[1], base))

\* this instanceof base, base = 0 being BaseForm
instanceOf(this, base) ==
  this.object /\ (base = 0 \/ Inherits(this.proto, base))

\* the field map a reference leads to during a call
DerefIn(st, ref) ==
  IF ref.owner = "prototype" THEN st.protos[ref.id].baseFields
  ELSE IF ref.owner = "instance" THEN st.this.map
  ELSE <<>>

\* An invocation of a hook or of BaseForm during construction: what was
\* invoked, of which constructor, with which kwargs, and this.fields then.
InitEvent(st, op, c, kwargs) ==
  [op |-> op, constructor |-> c, kwargs |-> kwargs,
   hasFields |-> st.this.fields # NoRef,
   fields |-> DerefIn(st, st.this.fields)]

LogInit(st, op, c, kwargs) ==
  [st EXCEPT !.this.log = Append(@, InitEvent(st, op, c, kwargs))]

\* copy.deepCopy(obj): an object of its own with the same entries
deepCopy(obj) == obj

BaseFormSharingFields(st, kwargs) ==
  [LogInit(st, "BaseForm", 0, kwargs) EXCEPT
     !.this.isBound = ~kwargs.data.null,
     !.this.data = kwargs.data.items,
     !.this.prefix = kwargs.prefix,
     !.this.initial = kwargs.initial.items,
     !.this.emptyPermitted = kwargs.emptyPermitted,
     !.this.fields = BaseFieldsRef(st.this.proto)]

\* BaseForm.call(this, kwargs)
BaseForm_call(st, kwargs) ==
  [LogInit(st, "BaseForm", 0, kwargs) EXCEPT
     !.this.isBound = ~kwargs.data.null,
     !.this.data = kwargs.data.items,
     !.this.prefix = kwargs.prefix,
     !.this.initial = kwargs.initial.items,
     !.this.emptyPermitted = kwargs.emptyPermitted,
     !.this.fields = OwnRef(Len(instances) + 1),
     !.this.map = deepCopy(DerefIn(st, BaseFieldsRef(st.this.proto)))]

\* preInit.call(this, kwargs) for the preInit of the c-th constructor
preInitReturn(c, kwargs) ==
  CASE constructors[c].preInit = "kwargs" ->
         [kind |-> "object",
          value |-> [kwargs EXCEPT !.prefix = "pre" \o Digits[c]]]
    [] constructors[c].preInit = "null" -> [kind |-> "null", value |-> kwargs]
    [] OTHER -> [kind |-> "undefined", value |-> kwargs]

orKwargsIgnoringReturn(r, kwargs) == kwargs

\* r || kwargs
orKwargs(r, kwargs) == IF r.kind = "object" THEN r.value ELSE kwargs

\* an assignment to, or deletion from, the object this.fields refers to
writeFields(st, ref, map) ==
  IF ref.owner = "prototype"
  THEN [st EXCEPT !.protos[ref.id].baseFields = map]
  ELSE [st EXCEPT !.this.map = map]

\* what the postInit of the c-th constructor does once invoked
postInitEffect(c, st) ==
  IF constructors[c].postInit = "delete" /\ DerefIn(st, st.this.fields) # <<>>
  THEN writeFields(st, st.this.fields, Tail(DerefIn(st, st.this.fields)))
  ELSE st

\* if (postInit !== null) postInit.call(this, kwargs)
postInitCall(c, st, kwargs) ==
  IF constructors[c].postInit = Null THEN st
  ELSE postInitEffect(c, LogInit(st, "postInit", c, kwargs))

RECURSIVE formConstructor(_, _, _)

baseCallSkippingParent(c, st, kwargs) == BaseForm_call(st, kwargs)

\* bases[0].call(this, kwargs)
baseCall(c, st, kwargs) ==
  IF constructors[c].bases[1] = 0 THEN BaseForm_call(st, kwargs)
  ELSE formConstructor(constructors[c].bases[1], st, kwargs)

\* formConstructor from the call of bases[0] on, kwargs being what preInit
\* left
construct(c, st, kwargs) == postInitCall(c, baseCall(c, st, kwargs), kwargs)

\* formConstructor from the preInit test on
preInitCall(c, st, kwargs) ==
  construct(c,
            IF constructors[c].preInit # Null
            THEN LogInit(st, "preInit", c, kwargs)
            ELSE st,
            IF constructors[c].preInit # Null
            THEN orKwargs(preInitReturn(c, kwargs), kwargs)
            ELSE kwargs)

\* the body of the c-th constructor, called with this and kwargs
formConstructor(c, st, kwargs) ==
  IF ~instanceOf(st.this, constructors[c].bases[1])
  THEN formConstructor(c, newObject(c, st), kwargs)
  ELSE preInitCall(c, LogInit(st, "constructor", c, kwargs), kwargs)

\* the state once a call of a constructor has returned the object st.this
Returned(st) ==
  /\ instances' = Append(instances, [st.this EXCEPT !.allocated = st.allocated])
  /\ constructors' = st.protos
  /\ UNCHANGED <<thisForm, creationCounter>>

\* new C(kwargs), C the c-th constructor, while fewer than max instances
\* exist
New(max, c, kwargs) ==
  /\ Len(instances) < max
  /\ Returned(formConstructor(c, newObject(c, Calling), kwargs))

\* C(kwargs), C the c-th constructor, while fewer than max instances exist
Call(max, c, kwargs) ==
  /\ Len(instances) < max
  /\ Returned(formConstructor(c, Calling, kwargs))

\* the field map this.fields of the i-th instance refers to
Fields(i) ==
  IF instances[i].fields.owner = "prototype"
  THEN constructors[instances[i].fields.id].baseFields
  ELSE IF instances[i].fields.owner = "instance"
  THEN instances[instances[i].fields.id].map
  ELSE <<>>

FieldMutations == {"add", "replace", "delete"}

\* the first of FieldNames that is not a key of the map
FreshName(map) ==
  FieldNames[CHOOSE k \in 1..Len(FieldNames) :
               /\ ~HasKey(map, FieldNames[k])
               /\ \A j \in 1..(k - 1) : HasKey(map, FieldNames[j])]

\* form.fields[name] = new Field(), for a new or for the first name, or
\* delete form.fields[name] for the first name
mutatedFields(map, op) ==
  CASE op = "add" -> Put(map, FreshName(map), creationCounter + 1)
    [] op = "replace" -> Put(map, map[1][1], creationCounter + 1)
    [] op = "delete" -> Delete(map, map[1][1])

\* client code alters the fields of the i-th instance
Mutate(i, op) ==
  /\ instances[i].mutations < MaxMutations
  /\ op = "add" => \E k \in 1..Len(FieldNames) : ~HasKey(Fields(i), FieldNames[k])
  /\ op # "add" => Fields(i) # <<>>
  /\ op # "delete" => creationCounter < MaxCreated
  /\ creationCounter' = IF op = "delete" THEN creationCounter
                        ELSE creationCounter + 1
  /\ IF instances[i].fields.owner = "prototype"
     THEN /\ constructors' =
               [constructors EXCEPT
                  ![instances[i].fields.id].baseFields = mutatedFields(@, op)]
          /\ instances' = [instances EXCEPT ![i].mutations = @ + 1]
     ELSE /\ instances' =
               [instances EXCEPT
                  ![instances[i].fields.id].map = mutatedFields(@, op),
                  ![i].mutations = @ + 1]
          /\ UNCHANGED constructors
  /\ UNCHANGED thisForm

\* constructors that inherit from BaseForm or from one composed constructor
ChainBases == {b \in BaseLists : Len(b) = 1}

\* one field declared inline, its name chosen by the number of constructors
ChainDeclarations ==
  {d \in Declarations :
     /\ Len(d) = 1
     /\ d[1][1] = FieldNames[(Len(constructors) % Len(FieldNames)) + 1]}

KwargsInputs ==
  {[data |-> NullObject, initial |-> NullObject, prefix |-> Null,
    emptyPermitted |-> FALSE],
   [data |-> Object(<<>>), initial |-> NullObject, prefix |-> "p1",
    emptyPermitted |-> FALSE]}

\* Form() called with hooks of the given behaviours, while fewer than max
\* constructors exist
Compose(max, preInits, postInits) ==
  /\ Len(constructors) < max
  /\ \E bases \in ChainBases, declared \in ChainDeclarations,
        preInit \in preInits, postInit \in postInits :
       Form(bases, declared, preInit, postInit)

NextInit ==
  \/ Compose(MaxChain, {Null} \cup PreInits, {Null, "noop"})
  \/ \E c \in 1..Len(constructors), kwargs \in KwargsInputs :
       New(MaxBuilt, c, kwargs)
  \/ \E c \in 1..Len(constructors), kwargs \in KwargsInputs :
       Call(MaxBuilt, c, kwargs)

SpecInit == InitCompose /\ [][NextInit]_vars

\* kwargs without prefix
BareKwargs == {kwargs \in KwargsInputs : kwargs.prefix = Null}

NextFields ==
  \/ Compose(MaxBlueprints, {Null}, {Null, "delete"})
  \/ \E c \in 1..Len(constructors), kwargs \in BareKwargs :
       New(MaxInstances, c, kwargs)
  \/ \E c \in 1..Len(constructors), kwargs \in BareKwargs :
       Call(MaxInstances, c, kwargs)
  \/ \E i \in 1..Len(instances), op \in FieldMutations : Mutate(i, op)

SpecFields == InitCompose /\ [][NextFields]_vars

----------------------------------------------------------------------------
(* Properties of the validation pipeline *)

Events == 1..Len(trace)

Calls(op, name) == {i \in Events : trace[i].op = op /\ trace[i].name = name}

Invoked(op) == {i \in Events : trace[i].op = op}

\* a non-validation error ended the run
Aborted == \E i \in Events : trace[i].outcome = "Error"

\* fullClean took the emptyPermitted exit
ShortCircuited == isBound /\ ~_errors.null /\ trace = <<>>

\* the pipeline ran to its end
Finished == isBound /\ ~_errors.null /\ ~Aborted

\* the i-th declared field's clean raises a ValidationError on the
\* submitted value
CleanFails(i) ==
  FieldClean(fields[i].kind,
             valueFromData(data, addPrefix(fields[i].name)),
             IF fields[i].kind = "file"
             THEN getDefault(initial, fields[i].name, fields[i].initial)
             ELSE Null).failed

C2_FieldFailureIsLocal ==
  (Finished /\ ~ShortCircuited) =>
    \A i \in 1..Len(fields) :
      CleanFails(i) =>
        /\ HasKey(_errors.items, fields[i].name)
        /\ Len(ErrorGet(_errors.items, fields[i].name)) > 0
        /\ \A k \in Invoked("clean") : ~HasKey(trace[k].cd.items, fields[i].name)
        /\ Invoked("clean") # {}
        /\ \A j \in 1..Len(fields) :
             j # i => Cardinality(Calls("field.clean", fields[j].name)) = 1

\* C2 witness: the first of several fields failed and a later one cleaned.
C2_Witness ==
  /\ Finished /\ ~ShortCircuited
  /\ Len(fields) >= 2
  /\ CleanFails(1)
  /\ \E k \in Calls("field.clean", fields[2].name) : trace[k].outcome = "returned"

\* C3: an unbound instance is never valid, never has cleanedData, never has
\* a key in its Error Report, and none of its fields' cleans or hooks is
\* ever invoked, whatever is read.
C3_UnboundNeverCleans ==
  ~isBound =>
    /\ valid # "true"
    /\ ~isValidCall(DefaultEnv).value
    /\ cleanedData.kind = "absent"
    /\ ~isPopulated(_errors.items)
    /\ trace = <<>>
    /\ ~threw

\* C3 witness: an unbound instance after isValid(), errors() and
\* changedData() have all been called.
C3_Witness ==
  ~isBound /\ valid = "false" /\ ~_errors.null /\ ~_changedData.null

\* C4: fullClean runs at most once per instance, each field's clean is
\* invoked at most once, and once the Error Report is stored every read
\* returns it and leaves the instance as it is.
C4_PipelineRunsOnce ==
  /\ runs <= 1
  /\ \A i \in 1..Len(fields) :
       Cardinality(Calls("field.clean", fields[i].name)) <= 1
  /\ ~_errors.null =>
       \A name \in {Undefined, NON_FIELD_ERRORS} \cup DeclaredNames :
         LET c == errorsCall(name, DefaultEnv)
         IN /\ c.s = Current
            /\ ~truthy(name) => c.value.list = _errors.items
            /\ (truthy(name) /\ HasKey(_errors.items, name)) =>
                 c.value.list = ErrorGet(_errors.items, name)

\* C4 witness: the run was aborted by the first call, and a later isValid()
\* returned from the stored report.
C4_Witness ==
  runs = 1 /\ Aborted /\ valid # "none" /\ trace # <<>>

\* C5: a bound emptyPermitted instance with no changed field validates to
\* true with cleanedData {} and without invoking any field's clean or any
\* hook, even when a field's clean would raise on the submitted value.
C5_EmptyPermittedShortCircuit ==
  (isBound /\ emptyPermitted /\ changedDataLoop(1) = <<>> /\ ~_errors.null) =>
    /\ trace = <<>>
    /\ cleanedData = ObjectData(<<>>)
    /\ ~isPopulated(_errors.items)
    /\ valid # "false"
    /\ isValidCall(DefaultEnv).value
    /\ ~threw

\* C5 witness: the short circuit applied to an instance with a field whose
\* clean would have raised, and isValid() returned true.
C5_Witness ==
  /\ isBound /\ emptyPermitted /\ changedDataLoop(1) = <<>>
  /\ valid = "true"
  /\ \E i \in 1..Len(fields) : CleanFails(i)

\* C9: when a field's clean, a per-field hook or clean() raises an error
\* that is no ValidationError, nothing more is invoked, the error leaves the
\* public call that started the run, and the Error Report is the one the
\* raising function was invoked with.
C9_OtherErrorsPropagate ==
  \A i \in Events :
    trace[i].outcome = "Error" =>
      /\ trace[i].op \in {"field.clean", "hook", "clean"}
      /\ i = Len(trace)
      /\ threw
      /\ ~_errors.null
      /\ _errors.items = trace[i].errors

\* C9 witness: a per-field hook raised a non-validation error after an
\* earlier field had already failed validation.
C9_Witness ==
  \E i \in Invoked("hook") :
    trace[i].outcome = "Error" /\ isPopulated(trace[i].errors) /\ threw

\* what the clean() invocation recorded in event ev returned
CleanReturned(ev) ==
  CASE ev.name = "default" -> ev.cd
    [] ev.name = "replace" -> ObjectData(ReplacementData)
    [] ev.name = "undefined" -> UndefinedData

\* C10: a ValidationError raised by clean() is recorded under "__all__" and
\* changes the entry of no field name, and the cleanedData accumulated before
\* is gone after the run; when clean() returns, what it returned is the
\* cleanedData that _postClean sees and that a run without errors leaves.
C10_FormWideCleanOutcome ==
  \A k \in Invoked("clean") :
    /\ trace[k].outcome = "ValidationError" =>
         /\ k + 1 \in Invoked("_postClean")
         /\ HasKey(trace[k + 1].errors, NON_FIELD_ERRORS)
         /\ ErrorGet(trace[k + 1].errors, NON_FIELD_ERRORS) = CleanMessage
         /\ \A f \in DeclaredNames :
              /\ HasKey(trace[k + 1].errors, f) <=> HasKey(trace[k].errors, f)
              /\ HasKey(trace[k].errors, f) =>
                   ErrorGet(trace[k + 1].errors, f) = ErrorGet(trace[k].errors, f)
         /\ ErrorGet(_errors.items, NON_FIELD_ERRORS) = CleanMessage
         /\ cleanedData.kind = "absent"
    /\ trace[k].outcome = "returned" =>
         /\ k + 1 \in Invoked("_postClean")
         /\ trace[k + 1].cd = CleanReturned(trace[k])
         /\ ~isPopulated(_errors.items) => cleanedData = CleanReturned(trace[k])

\* C10 witness: clean() raised a ValidationError on an instance with one
\* field already failed and one field cleaned.
C10_Witness ==
  \E k \in Invoked("clean") :
    /\ trace[k].outcome = "ValidationError"
    /\ isPopulated(trace[k].errors)
    /\ trace[k].cd.items # <<>>
    /\ cleanedData.kind = "absent"

\* C10 witness for the returning case is part of the same run family: clean()
\* returned a replacement object and the run ended without errors.
C10_ReplacedWitness ==
  \E k \in Invoked("clean") :
    /\ trace[k].name = "replace"
    /\ trace[k].cd.items # <<>>
    /\ cleanedData = ObjectData(ReplacementData)

----------------------------------------------------------------------------
(* Properties of names and change detection *)

\* the effective external name as specified: the bare name without prefix
EffectiveName(name) ==
  IF prefix = Null \/ prefix = "" THEN name ELSE prefix \o "-" \o name

\* C7: the external name of a field is prefix-name with a prefix and the
\* bare name without one (prefix null or empty), and validation, change
\* detection and the bound value accessor read the submitted value under
\* that name only.
C7_EffectiveExternalName ==
  \A i \in 1..Len(fields) :
    LET name == fields[i].name
        submitted == valueFromData(data, EffectiveName(name))
    IN /\ addPrefix(name) = EffectiveName(name)
       /\ BoundField_data(name) = submitted
       /\ (Finished /\ ~ShortCircuited /\ fields[i].kind = "required") =>
            (HasKey(_errors.items, name) <=> IsEmptyValue(submitted))
       /\ (~_changedData.null /\ ~fields[i].showHiddenInitial) =>
            (name \in Range(_changedData.items)
               <=> FieldHasChanged(getDefault(initial, name, fields[i].initial),
                                   submitted))

\* The part of C7 the code satisfies: the same with the bare name used only
\* when the prefix is null.
C7_ExternalNameUnlessNull ==
  \A i \in 1..Len(fields) :
    LET name == fields[i].name
        external == IF prefix = Null THEN name ELSE prefix \o "-" \o name
        submitted == valueFromData(data, external)
    IN /\ addPrefix(name) = external
       /\ BoundField_data(name) = submitted
       /\ (Finished /\ ~ShortCircuited /\ fields[i].kind = "required") =>
            (HasKey(_errors.items, name) <=> IsEmptyValue(submitted))
       /\ (~_changedData.null /\ ~fields[i].showHiddenInitial) =>
            (name \in Range(_changedData.items)
               <=> FieldHasChanged(getDefault(initial, name, fields[i].initial),
                                   submitted))

\* the position of a declared name in the field map
Position(name) == CHOOSE i \in 1..Len(fields) : fields[i].name = name

\* the initial value change detection compares the i-th field against
InitialFor(i) ==
  IF fields[i].showHiddenInitial
  THEN IF HasKey(data, "initial-" \o addPrefix(fields[i].name))
       THEN Get(data, "initial-" \o addPrefix(fields[i].name))
       ELSE Null
  ELSE IF HasKey(initial, fields[i].name)
       THEN Get(initial, fields[i].name)
       ELSE fields[i].initial

\* C8: once computed, the changed-data list holds exactly the declared names
\* whose change predicate answers true for (initial, submitted), each once and
\* in declaration order, with the instance's initial value taking precedence
\* over the field's and the shadow channel replacing both for a field with
\* showHiddenInitial; the list is computed at most once.
C8_ChangedData ==
  /\ changedRuns <= 1
  /\ ~_changedData.null =>
       LET names == _changedData.items
       IN /\ changedRuns = 1
          /\ \A i \in 1..Len(fields) :
               (fields[i].name \in Range(names))
                 <=> FieldHasChanged(InitialFor(i), BoundField_data(fields[i].name))
          /\ Range(names) \subseteq DeclaredNames
          /\ \A a, b \in 1..Len(names) :
               a < b => Position(names[a]) < Position(names[b])

\* C8 witness: two fields reported changed in declaration order, the first
\* against its instance initial value, the second against its shadow channel.
C8_Witness ==
  /\ ~_changedData.null
  /\ Len(fields) >= 2
  /\ _changedData.items = <<fields[1].name, fields[2].name>>
  /\ ~fields[1].showHiddenInitial
  /\ fields[1].initial = "x"
  /\ BoundField_data(fields[1].name) = "x"
  /\ HasKey(initial, fields[1].name)
  /\ fields[2].showHiddenInitial
  /\ HasKey(data, "initial-" \o addPrefix(fields[2].name))

----------------------------------------------------------------------------
(* Properties of composition *)

NamesOf(items) == [i \in 1..Len(items) |-> items[i][1]]

\* the first position of x in a sequence that holds it
First(seq, x) ==
  CHOOSE i \in 1..Len(seq) : seq[i] = x /\ \A j \in 1..(i - 1) : seq[j] # x

RECURSIVE ParentNames(_, _)
\* the field names of the first i listed parents, parent after parent
ParentNames(con, i) ==
  IF i = 0 THEN <<>>
  ELSE ParentNames(con, i - 1)
         \o (IF con.bases[i] = 0 THEN <<>>
             ELSE NamesOf(constructors[con.bases[i]].baseFields))

\* C6: the merged field map of every composed constructor lists each name
\* once: the parents' names first, in parent order, then the names declared
\* inline only, by creation counter whatever the order they were enumerated
\* in; and a name declared inline maps to the inline field, at the parents'
\* position if a parent had it.
C6_MergedFieldOrder ==
  \A c \in 1..Len(constructors) :
    LET con == constructors[c]
        merged == NamesOf(con.baseFields)
        parents == ParentNames(con, Len(con.bases))
        inline == {con.declared[i][1] : i \in 1..Len(con.declared)}
        counter(x) == Get(con.declared, x)
        before(x, y) ==
          IF x \in Range(parents) /\ y \in Range(parents)
          THEN First(parents, x) < First(parents, y)
          ELSE IF x \in Range(parents) THEN TRUE
          ELSE IF y \in Range(parents) THEN FALSE
          ELSE counter(x) < counter(y)
    IN /\ Injective(merged)
       /\ Range(merged) = Range(parents) \cup inline
       /\ \A x, y \in Range(merged) :
            x # y => (First(merged, x) < First(merged, y) <=> before(x, y))
       /\ \A x \in inline : Get(con.baseFields, x) = counter(x)

\* C6 witness: a parent with two fields, composed with an inline
\* redeclaration of its second field and a new field constructed before the
\* redeclaration but enumerated after it: the order is parent's first,
\* parent's second (the new field), the new name.
C6_Witness ==
  \E c \in 1..Len(constructors) :
    LET con == constructors[c]
    IN /\ Len(con.bases) = 1 /\ con.bases[1] # 0
       /\ Len(constructors[con.bases[1]].baseFields) = 2
       /\ Len(con.declared) = 2
       /\ con.declared[1][1] = constructors[con.bases[1]].baseFields[2][1]
       /\ con.declared[1][2] > con.declared[2][2]
       /\ NamesOf(con.baseFields)
            = NamesOf(constructors[con.bases[1]].baseFields)
                \o <<con.declared[2][1]>>
       /\ con.baseFields[2][2] = con.declared[1][2]

\* the listed parents of con that declare the name x, by position in the
\* list
ParentsWith(con, x) ==
  {i \in 1..Len(con.bases) :
     con.bases[i] # 0 /\ HasKey(constructors[con.bases[i]].baseFields, x)}

\* the field the i-th listed parent of con has under the name x
ParentField(con, i, x) == Get(constructors[con.bases[i]].baseFields, x)

Earliest(S) == CHOOSE i \in S : \A j \in S : i <= j

Latest(S) == CHOOSE i \in S : \A j \in S : j <= i

InlineNames(con) == {con.declared[i][1] : i \in 1..Len(con.declared)}

\* C14 as claimed: a name that several parents declare and that is not
\* declared inline keeps the field of the earliest-listed parent that has
\* it, the later parents' entries being skipped.
C14_LaterParentSkipped ==
  \A c \in 1..Len(constructors) :
    \A x \in NameSet :
      (ParentsWith(constructors[c], x) # {}
         /\ x \notin InlineNames(constructors[c])) =>
        Get(constructors[c].baseFields, x)
          = ParentField(constructors[c],
                        Earliest(ParentsWith(constructors[c], x)), x)

\* C14 as amended: a name that several parents declare stays at the
\* position the earliest-listed parent gives it, and maps to the field of
\* the latest-listed parent that has it unless it is declared inline, in
\* which case it maps to the inline field.
C14_LaterParentReplacesInPlace ==
  \A c \in 1..Len(constructors) :
    \A x \in NameSet :
      ParentsWith(constructors[c], x) # {} =>
        /\ HasKey(constructors[c].baseFields, x)
        /\ First(NamesOf(constructors[c].baseFields), x)
             = Cardinality(
                 {y \in Range(ParentNames(constructors[c],
                                          Len(constructors[c].bases))) :
                    First(ParentNames(constructors[c],
                                      Len(constructors[c].bases)), y)
                      <= First(ParentNames(constructors[c],
                                           Len(constructors[c].bases)), x)})
        /\ Get(constructors[c].baseFields, x)
             = (IF x \in InlineNames(constructors[c])
                THEN Get(constructors[c].declared, x)
                ELSE ParentField(constructors[c],
                                 Latest(ParentsWith(constructors[c], x)), x))

\* C14 witness: a constructor composed from two parents that declare
\* different fields under one name and nothing inline: the name stands where
\* the first parent has it and maps to the second parent's field.
C14_Witness ==
  \E c \in 1..Len(constructors) : \E x \in NameSet :
    /\ Len(constructors[c].bases) = 2
    /\ constructors[c].declared = <<>>
    /\ ParentsWith(constructors[c], x) = {1, 2}
    /\ ParentField(constructors[c], 1, x) # ParentField(constructors[c], 2, x)
    /\ First(NamesOf(constructors[c].baseFields), x)
         = First(NamesOf(constructors[constructors[c].bases[1]].baseFields), x)
    /\ Get(constructors[c].baseFields, x) = ParentField(constructors[c], 2, x)

----------------------------------------------------------------------------
(* Properties of the per-field hooks *)

\* the invocations of the exact-name hook of the i-th declared field
ExactCalls(i) == Calls("hook", customCleanExact(fields[i].name))

\* the invocations of the camel-cased hook of the i-th declared field
CamelCalls(i) == Calls("hook", customCleanCamel(i))

\* the i-th declared field's clean returned a value
CleanSucceeded(i) ==
  \E k \in Calls("field.clean", fields[i].name) : trace[k].outcome = "returned"

\* the hook invoked at h for the field of the given name had the effect the
\* next invocation found: a returned value, undefined included, is the
\* field's entry and the Error Report is as before; a ValidationError is
\* recorded under the name and the entry is gone
HookTookEffect(h, name) ==
  /\ HasKey(trace[h].cd.items, name)
  /\ trace[h].outcome # "Error" =>
       /\ h + 1 \in Events
       /\ trace[h].outcome = "returned" =>
            /\ HasKey(trace[h + 1].cd.items, name)
            /\ Get(trace[h + 1].cd.items, name)
                 = (IF hooks.hook = "value" THEN HookValue ELSE Undefined)
            /\ trace[h + 1].errors = trace[h].errors
       /\ trace[h].outcome = "ValidationError" =>
            /\ ~HasKey(trace[h + 1].cd.items, name)
            /\ HasKey(trace[h + 1].errors, name)
            /\ ErrorGet(trace[h + 1].errors, name) = HookMessage

\* C11: for every field at most one custom hook is invoked, and only after
\* the field's clean returned: clean_<name> if the instance has it, else
\* clean<Name> if the instance has it; what the hook returns, undefined
\* included, becomes the field's entry in cleanedData, and a ValidationError
\* it raises is recorded under the field's name with the entry removed.
C11_HookPrecedence ==
  \A i \in 1..Len(fields) :
    /\ Cardinality(ExactCalls(i) \cup CamelCalls(i)) <= 1
    /\ ~CleanSucceeded(i) => ExactCalls(i) \cup CamelCalls(i) = {}
    /\ CleanSucceeded(i) =>
         /\ Cardinality(ExactCalls(i))
              = (IF hooks.field = i /\ hooks.hasExact THEN 1 ELSE 0)
         /\ Cardinality(CamelCalls(i))
              = (IF hooks.field = i /\ hooks.hasCamel /\ ~hooks.hasExact
                 THEN 1 ELSE 0)
    /\ \A h \in ExactCalls(i) \cup CamelCalls(i) :
         /\ h - 1 \in Calls("field.clean", fields[i].name)
         /\ HookTookEffect(h, fields[i].name)

\* C11 witness: an instance with both hooks for a field, after a finished
\* run in which the exact-name hook was invoked and its value is the
\* field's entry in cleanedData.
C11_Witness ==
  /\ Finished
  /\ \E i \in 1..Len(fields) :
       /\ hooks.field = i /\ hooks.hasExact /\ hooks.hasCamel
       /\ ExactCalls(i) # {}
       /\ cleanedData.kind = "object"
       /\ Get(cleanedData.items, fields[i].name) = HookValue

\* a run in which a camel-cased hook returned undefined
C11_UndefinedWitness ==
  \E i \in 1..Len(fields) : \E h \in CamelCalls(i) :
    trace[h].outcome = "returned" /\ hooks.hook = "undefined"

\* a run in which an exact-name hook raised a ValidationError
C11_ValidationErrorWitness ==
  \E i \in 1..Len(fields) : \E h \in ExactCalls(i) :
    trace[h].outcome = "ValidationError"

----------------------------------------------------------------------------
(* Order of the steps of a validation run *)

\* C15: in a run on a bound instance that is not short-circuited and that no
\* non-validation error ended, every declared field is processed, then
\* clean() is invoked exactly once, also when fields failed, then _postClean
\* exactly once, also when clean() raised a ValidationError; cleanedData is
\* still there when _postClean is invoked and is discarded afterwards when
\* the Error Report is populated, errors recorded by _postClean included.
C15_StepOrder ==
  (Finished /\ ~ShortCircuited) =>
    /\ Cardinality(Invoked("clean")) = 1
    /\ Cardinality(Invoked("_postClean")) = 1
    /\ \A c \in Invoked("clean") :
         /\ c + 1 \in Invoked("_postClean")
         /\ c + 1 = Len(trace)
         /\ \A i \in 1..Len(fields) :
              /\ Calls("field.clean", fields[i].name) # {}
              /\ \A k \in Calls("field.clean", fields[i].name) : k < c
         /\ \A k \in Invoked("hook") : k < c
    /\ \A p \in Invoked("_postClean") :
         /\ trace[p].cd.kind # "absent"
         /\ trace[p - 1].outcome = "ValidationError" =>
              HasKey(trace[p].errors, NON_FIELD_ERRORS)
    /\ hooks.postClean = "addError" =>
         /\ isPopulated(_errors.items)
         /\ cleanedData.kind = "absent"

\* C15 witness: a finished run in which nothing had failed when _postClean
\* was invoked, _postClean recorded an error and cleanedData is absent.
C15_Witness ==
  /\ Finished /\ ~ShortCircuited
  /\ hooks.postClean = "addError"
  /\ \E p \in Invoked("_postClean") :
       trace[p].errors = <<>> /\ trace[p].cd.items # <<>>
  /\ cleanedData.kind = "absent"

\* a finished run in which a field failed, clean() raised a ValidationError
\* and both clean() and _postClean were invoked
C15_FailuresWitness ==
  /\ Finished /\ ~ShortCircuited
  /\ CleanFails(1)
  /\ \E c \in Invoked("clean") : trace[c].outcome = "ValidationError"
  /\ Invoked("_postClean") # {}

----------------------------------------------------------------------------
(* Validity after a run that a non-validation error ended *)

\* C16: on a bound instance isValid() returns true only after a run that
\* finished without a recorded error; once a run was ended by a propagating
\* non-validation error no isValid() call returns true, so that the
\* cleanedData the run left is never that of a valid instance.
C16_ValidOnlyAfterFinishedRun ==
  /\ (isBound /\ valid = "true") =>
       (Finished /\ ~isPopulated(_errors.items))
  /\ (Aborted \/ threw) => valid # "true"

\* what holds instead: isValid() returns true exactly when the Error Report
\* the first run left has no key, whether or not that run finished
C16_ValidIffReportEmpty ==
  (isBound /\ valid # "none") =>
    ((valid = "true") <=> ~isPopulated(_errors.items))

\* a second isValid() call returned true after the first run was ended by
\* a non-validation error while cleanedData was partially filled
C16_AbortedThenValid ==
  /\ Aborted /\ threw /\ valid = "true"
  /\ cleanedData.kind = "object" /\ cleanedData.items # <<>>
  /\ Len(cleanedData.items) < Len(fields)

----------------------------------------------------------------------------
(* Properties of instantiation *)

RECURSIVE DeletesInChain(_)
\* the number of postInit hooks that delete a field when an instance of the
\* c-th constructor is created
DeletesInChain(c) ==
  IF c = 0 THEN 0
  ELSE (IF constructors[c].postInit = "delete" THEN 1 ELSE 0)
         + DeletesInChain(constructors[c].bases[1])

\* a sequence without its first k elements
Drop(seq, k) == SubSeq(seq, (IF k < Len(seq) THEN k ELSE Len(seq)) + 1, Len(seq))

\* the field map of a new instance of the c-th constructor: the merged
\* field map as composed, less what the postInit hooks delete
FreshFields(c) ==
  Drop(mergedBaseFields(constructors[c].bases, constructors[c].declared),
       DeletesInChain(c))

\* no step changes a constructor, and a step changes the field map of an
\* instance only if it alters that instance
FieldMutationIsLocal ==
  /\ \A c \in 1..Len(constructors) : constructors'[c] = constructors[c]
  /\ \A i \in 1..Len(instances) :
       Fields(i)' # Fields(i) => instances'[i].mutations # instances[i].mutations

\* an instance that was not altered has the field map of a new instance
UnalteredIsFresh ==
  \A i \in 1..Len(instances) :
    instances[i].mutations = 0 => Fields(i) = FreshFields(instances[i].proto)

\* C12: adding, removing or replacing a field of one instance, in a postInit
\* or afterwards, changes neither the baseFields of any constructor nor the
\* field map of any other instance, and every instance that was not altered,
\* those created later included, has the fields its constructor was
\* composed with.
C12_FieldMutationIsLocal == []UnalteredIsFresh /\ [][FieldMutationIsLocal]_vars

\* C12 witness: two instances of one constructor, the first altered so that
\* its field map is no longer the one composed, the second not altered.
C12_Witness ==
  /\ Len(instances) >= 2
  /\ instances[1].proto = instances[2].proto
  /\ instances[1].mutations > 0
  /\ instances[2].mutations = 0
  /\ Fields(1) # Fields(2)
  /\ Fields(1) # constructors[instances[1].proto].baseFields

\* an instance whose postInit deleted a field from its own field map
C12_PostInitWitness ==
  \E i \in 1..Len(instances) :
    /\ constructors[instances[i].proto].postInit = "delete"
    /\ Len(Fields(i)) < Len(constructors[instances[i].proto].baseFields)

----------------------------------------------------------------------------
(* Order of construction *)

\* the positions in the construction log of the i-th instance of the
\* invocations of op for the constructor d
InitCalls(i, op, d) ==
  {j \in 1..Len(instances[i].log) :
     instances[i].log[j].op = op /\ instances[i].log[j].constructor = d}

\* the kwargs in use after the preInit of the constructor d was called with
\* k: what it returned if it returned a kwargs object, else k
KwargsAfterPreInit(d, k) ==
  IF constructors[d].preInit = "kwargs"
  THEN [k EXCEPT !.prefix = "pre" \o Digits[d]]
  ELSE k

\* the constructor entered at position j of the log of the i-th instance
\* ran its preInit, if it has one, next and with the kwargs it was called
\* with, before this.fields existed; then called its first base with the
\* kwargs preInit left; and ran its postInit, if it has one, once, with
\* these kwargs, after the base construction had copied the merged field map
LevelInOrder(i, j) ==
  LET log == instances[i].log
      d == log[j].constructor
      hasPre == constructors[d].preInit # Null
      k1 == KwargsAfterPreInit(d, log[j].kwargs)
      nxt == IF hasPre THEN j + 2 ELSE j + 1
  IN /\ InitCalls(i, "constructor", d) = {j}
     /\ InitCalls(i, "preInit", d) = (IF hasPre THEN {j + 1} ELSE {})
     /\ hasPre => (log[j + 1].kwargs = log[j].kwargs /\ ~log[j + 1].hasFields)
     /\ nxt <= Len(log)
     /\ log[nxt].op = (IF constructors[d].bases[1] = 0 THEN "BaseForm"
                       ELSE "constructor")
     /\ log[nxt].constructor = constructors[d].bases[1]
     /\ log[nxt].kwargs = k1
     /\ Cardinality(InitCalls(i, "postInit", d))
          = (IF constructors[d].postInit # Null THEN 1 ELSE 0)
     /\ \A p \in InitCalls(i, "postInit", d) :
          /\ log[p].kwargs = k1
          /\ log[p].hasFields
          /\ log[p].fields = constructors[instances[i].proto].baseFields
          /\ \A b \in 1..Len(log) : log[b].op # "postInit" => b < p

\* BaseForm ran once, before this.fields existed, and the instance holds
\* what BaseForm was given and a field map of its own equal to the merged one
BaseConstructed(i) ==
  /\ Cardinality(InitCalls(i, "BaseForm", 0)) = 1
  /\ \A b \in InitCalls(i, "BaseForm", 0) :
       /\ ~instances[i].log[b].hasFields
       /\ instances[i].isBound = ~instances[i].log[b].kwargs.data.null
       /\ instances[i].data = instances[i].log[b].kwargs.data.items
       /\ instances[i].initial = instances[i].log[b].kwargs.initial.items
       /\ instances[i].prefix = instances[i].log[b].kwargs.prefix
  /\ instances[i].fields = OwnRef(i)
  /\ Fields(i) = constructors[instances[i].proto].baseFields

\* C13: instantiating a composed constructor runs preInit if present, then
\* the base construction (data, initial and prefix set, the merged field map
\* copied into the instance), then postInit if present; the kwargs object a
\* preInit returns replaces the supplied kwargs for the base construction
\* and for postInit; and a call without new returns what new returns.
C13_ConstructionOrder ==
  /\ \A i \in 1..Len(instances) :
       /\ instances[i].object
       /\ 1 \in InitCalls(i, "constructor", instances[i].proto)
       /\ \A j \in 1..Len(instances[i].log) :
            instances[i].log[j].op = "constructor" => LevelInOrder(i, j)
       /\ BaseConstructed(i)
  /\ \A c \in 1..Len(constructors), kwargs \in KwargsInputs :
       formConstructor(c, Calling, kwargs)
         = formConstructor(c, newObject(c, Calling), kwargs)

\* C13 witness: an instance of a constructor derived from BaseForm whose
\* preInit returned a kwargs object with another prefix than supplied and
\* whose postInit ran with it after BaseForm.
C13_Witness ==
  \E i \in 1..Len(instances) :
    /\ constructors[instances[i].proto].bases = <<0>>
    /\ constructors[instances[i].proto].preInit = "kwargs"
    /\ constructors[instances[i].proto].postInit # Null
    /\ Len(instances[i].log) = 4
    /\ instances[i].log[1].kwargs.prefix = "p1"
    /\ instances[i].log[3].op = "BaseForm"
    /\ instances[i].log[4].kwargs.prefix # "p1"
    /\ instances[i].prefix = instances[i].log[4].kwargs.prefix

\* an instance whose preInit returned null, so that the supplied kwargs
\* stayed in use
C13_NullWitness ==
  \E i \in 1..Len(instances) :
    /\ constructors[instances[i].proto].preInit = "null"
    /\ instances[i].prefix = "p1"

\* what was invoked during the construction of the i-th instance, without
\* the entries into constructors
HookCalls(i) ==
  LET calls == SelectSeq(instances[i].log, LAMBDA e : e.op # "constructor")
  IN [j \in 1..Len(calls) |->
        <<calls[j].op, calls[j].constructor, calls[j].kwargs>>]

\* <<x>> if present, else nothing
If(present, x) == IF present THEN <<x>> ELSE <<>>

\* C17: an instance of a constructor c2 whose first parent is a composed
\* constructor c1 derived from BaseForm was constructed by c2's preInit,
\* c1's preInit, BaseForm, c1's postInit and c2's postInit in this order,
\* those present each once, c1 and its preInit being given the kwargs c2's
\* preInit left, BaseForm and c1's postInit those c1's preInit left and
\* c2's postInit those c2's preInit left; one object was allocated.
C17_NestedHookOrder ==
  \A i \in 1..Len(instances) :
    LET c2 == instances[i].proto
        c1 == constructors[c2].bases[1]
        k == instances[i].log[1].kwargs
        k2 == KwargsAfterPreInit(c2, k)
        k1 == KwargsAfterPreInit(c1, k2)
    IN (c1 # 0 /\ constructors[c1].bases[1] = 0) =>
         /\ HookCalls(i)
              = If(constructors[c2].preInit # Null, <<"preInit", c2, k>>)
                  \o If(constructors[c1].preInit # Null, <<"preInit", c1, k2>>)
                  \o <<<<"BaseForm", 0, k1>>>>
                  \o If(constructors[c1].postInit # Null, <<"postInit", c1, k1>>)
                  \o If(constructors[c2].postInit # Null, <<"postInit", c2, k2>>)
         /\ instances[i].allocated = 1

\* C17 witness: an instance of a constructor with all four hooks, both
\* preInit hooks returning kwargs of their own.
C17_Witness ==
  \E i \in 1..Len(instances) :
    LET c2 == instances[i].proto
        c1 == constructors[c2].bases[1]
    IN /\ c1 # 0 /\ constructors[c1].bases[1] = 0
       /\ constructors[c2].preInit = "kwargs" /\ constructors[c1].preInit = "kwargs"
       /\ constructors[c2].postInit # Null /\ constructors[c1].postInit # Null
       /\ Len(HookCalls(i)) = 5
       /\ HookCalls(i)[5][3].prefix # HookCalls(i)[4][3].prefix
       /\ instances[i].allocated = 1

====
